---- MODULE Spec2Model ----
(***************************************************************************)
(* Session buffering and lifecycle engine of the helpdesk chatbot:         *)
(* ChatSessionManager (agent/chat_manager.py), the agent graph nodes       *)
(* (agent/nodes.py, agent/graph.py) and the HTTP entry points              *)
(* (api/routes.py).  Requests are asyncio coroutines: one action of the    *)
(* model is the code a coroutine runs from one suspension point to the     *)
(* next (an awaited store query, the awaited LLM call, a graph node        *)
(* boundary), together with the effect of the awaited call on the store.   *)
(***************************************************************************)
EXTENDS Integers, Sequences, FiniteSets, TLC

\* ------------------------------------------------------------------ bounds
Procs == {"p1", "p2"}            \* request coroutines that may be in flight
MaxRequests == 2                 \* requests one coroutine slot serves in sequence
MaxChats == 2                    \* chat ids generate_chat_id can hand out
MaxTurns == 2                    \* direct add_pending_message calls
MaxSaves == 3                    \* direct save_pending_messages and end_session calls
MaxTokensPerChat == 4            \* max_tokens_per_chat, scaled down from 10 * 8000

Users == {"u1"}
Topics == {"billing"}
NoTopic == "none"                \* Optional[str] = None
UserWords == {1}                 \* word counts of user messages
TurnWords == {4}                 \* word counts of directly appended turns
ApiChats == {1, 2}               \* chats the direct caller works on
\* Replies of the LLM: word count, and whether the text holds the phrase
\* "reached its maximum length" (four words at least).
Replies == {[words |-> 2, phrase |-> FALSE], [words |-> 4, phrase |-> TRUE]}

ChatIds == 1..MaxChats
NoChat == 0
NoTime == -1                     \* chat_id not in last_save_time

\* ------------------------------------------------------- program constants
AUTO_SAVE_INTERVAL_MINUTES == 3
RECENT_CHATS_LIMIT == 5

\* ------------------------------------------------------------------ helpers
RECURSIVE SumTokens(_)
SumTokens(msgs) ==
    IF msgs = <<>> THEN 0 ELSE Head(msgs).tokens + SumTokens(Tail(msgs))

RECURSIVE Flatten(_)
Flatten(batches) ==
    IF batches = <<>> THEN <<>> ELSE Head(batches) \o Flatten(Tail(batches))

RECURSIVE SelectSeq2(_, _)
SelectSeq2(s, u) ==
    IF s = <<>> THEN <<>>
    ELSE IF Head(s).user_id = u THEN <<Head(s)>> \o SelectSeq2(Tail(s), u)
         ELSE SelectSeq2(Tail(s), u)

\* int(len(text.split()) * 1.33)
EstimateTokens(words) == (words * 133) \div 100

VARIABLES
    \* the store
    chats,            \* table chats, most recently updated first
    messages,         \* table messages: per chat, the batches inserted
    \* ChatSessionManager
    pending_messages, \* self.pending_messages
    since_save,       \* datetime.utcnow() - self.last_save_time[c] in minutes
                      \* (all that is read of last_save_time), NoTime when
                      \* c is not in last_save_time
    \* environment
    requests,         \* requests started so far
    next_chat,        \* chat ids handed out by generate_chat_id
    next_session,     \* session ids handed out by generate_session_id
    \* per request coroutine
    pc, kind, user_id, topic, words, chat_id, session_id, is_new,
    state_messages,   \* AgentState["messages"], by kind of message
    force, caller,    \* the running save_pending_messages call
    held,             \* its local `messages`: the buffer's list object, or a list
                      \* object the buffer no longer refers to
    values, total_tokens, \* its locals `values` and `total_tokens`
    saved,            \* what the last save_pending_messages call returned
    entry,            \* history: buffer, stored total, batches and timer as
                      \* that call found them
    batch_writes,     \* history: INSERT INTO messages statements it executed
    existing_chats,   \* get_or_create_chat: the rows its SELECT returned
    info_total,       \* chat_info['total_tokens'] as get_or_create_chat returned it
    within_limit,     \* process_input: the result of check_token_limit, TRUE until
                      \* the check has run
    llm_calls, llm_retries, verdict, response,
    \* history
    appended,         \* per chat, every turn ever handed to add_pending_message
    chats_before,     \* per request, the number of rows of table chats when it
                      \* started
    last_call,        \* per chat, the save_pending_messages(force = False) call
                      \* that returned less than the auto-save interval ago
                      \* with no append since, if any
    failed_buf,       \* per chat, the turns of the last call that raised, until
                      \* a call succeeds
    last_read,        \* per request, the last SELECT it awaited and whether
                      \* run_query raised on it
    \* the read operations
    listed            \* the rows load_chat_history / load_chat_messages returned

memvars == <<pending_messages, since_save>>
dbvars == <<chats, messages>>
envvars == <<requests, next_chat, next_session>>
reqvars == <<kind, user_id, topic, words, chat_id, session_id, is_new,
            existing_chats, info_total, chats_before>>
readvars == <<last_read, listed>>
runvars == <<state_messages, within_limit, llm_calls, llm_retries, verdict>>
flushvars == <<force, caller, held, values, total_tokens, saved, entry,
              batch_writes>>
vars == <<chats, messages, pending_messages, since_save, requests,
          next_chat, next_session, pc, kind, user_id, topic, words, chat_id,
          session_id, is_new, state_messages, force, caller, held, values,
          total_tokens, saved, entry, batch_writes, within_limit, llm_calls, llm_retries,
          verdict, response, appended, existing_chats, info_total,
          chats_before, last_call, failed_buf, last_read, listed>>

NoRead == [query |-> "none", failed |-> FALSE]
NoHeld == [alias |-> FALSE, list |-> <<>>]
NotReturned == -2                \* no save_pending_messages call has returned
Raised == -1                     \* the call raised
NoCall == [result |-> NotReturned, writes |-> 0, age |-> 0]
NoEntry == [buf |-> <<>>, total |-> 0, batches |-> 0, since |-> NoTime,
            failed |-> <<>>, prev |-> NoCall]

\* What a store may hold when the process starts: nothing, or a chat of an
\* earlier run of the process with the one turn pair that run saved.
EarlierTurns ==
    <<[session_id |-> 0, role |-> "user", tokens |-> 1],
      [session_id |-> 0, role |-> "assistant", tokens |-> 2]>>

EarlierChat ==
    [chat_id |-> 1, user_id |-> "u1", topic |-> "billing",
     total_tokens |-> SumTokens(EarlierTurns)]

InitRequests ==
    /\ pending_messages = [c \in ChatIds |-> <<>>]
    /\ since_save = [c \in ChatIds |-> NoTime]
    /\ requests = 0
    /\ next_session = 1
    /\ pc = [p \in Procs |-> "idle"]
    /\ kind = [p \in Procs |-> "none"]
    /\ user_id = [p \in Procs |-> "none"]
    /\ topic = [p \in Procs |-> NoTopic]
    /\ words = [p \in Procs |-> 0]
    /\ chat_id = [p \in Procs |-> NoChat]
    /\ session_id = [p \in Procs |-> 0]
    /\ is_new = [p \in Procs |-> FALSE]
    /\ state_messages = [p \in Procs |-> <<>>]
    /\ force = [p \in Procs |-> FALSE]
    /\ caller = [p \in Procs |-> "none"]
    /\ held = [p \in Procs |-> NoHeld]
    /\ values = [p \in Procs |-> <<>>]
    /\ total_tokens = [p \in Procs |-> 0]
    /\ saved = [p \in Procs |-> NotReturned]
    /\ entry = [p \in Procs |-> NoEntry]
    /\ batch_writes = [p \in Procs |-> 0]
    /\ within_limit = [p \in Procs |-> TRUE]
    /\ llm_calls = [p \in Procs |-> 0]
    /\ llm_retries = [p \in Procs |-> 0]
    /\ verdict = [p \in Procs |-> "none"]
    /\ response = [p \in Procs |-> "none"]
    /\ existing_chats = [p \in Procs |-> <<>>]
    /\ info_total = [p \in Procs |-> 0]
    /\ chats_before = [p \in Procs |-> 0]
    /\ last_call = [c \in ChatIds |-> NoCall]
    /\ failed_buf = [c \in ChatIds |-> <<>>]
    /\ last_read = [p \in Procs |-> NoRead]
    /\ listed = [p \in Procs |-> <<>>]

Init ==
    /\ \/ /\ chats = <<>>
          /\ messages = [c \in ChatIds |-> <<>>]
          /\ appended = [c \in ChatIds |-> <<>>]
          /\ next_chat = 1
       \/ /\ chats = <<EarlierChat>>
          /\ messages = [c \in ChatIds |-> IF c = 1 THEN <<EarlierTurns>> ELSE <<>>]
          /\ appended = [c \in ChatIds |-> IF c = 1 THEN EarlierTurns ELSE <<>>]
          /\ next_chat = 2
    /\ InitRequests

\* A store with two chats: chat 1 from an earlier run of the process, chat 2
\* created and still empty.
InitApi ==
    /\ chats = <<EarlierChat,
                 [chat_id |-> 2, user_id |-> "u1", topic |-> NoTopic,
                  total_tokens |-> 0]>>
    /\ messages = [c \in ChatIds |-> IF c = 1 THEN <<EarlierTurns>> ELSE <<>>]
    /\ appended = [c \in ChatIds |-> IF c = 1 THEN EarlierTurns ELSE <<>>]
    /\ next_chat = 3
    /\ InitRequests

\* ------------------------------------------------------------- the store
\* run_query either executes its statement or raises.
StoreOutcomes == {"ok", "error"}

Min(a, b) == IF a < b THEN a ELSE b

\* Seeded fault: the SELECT without its LIMIT.
AllActiveChats(u) ==
    SelectSeq2(chats, u)

\* SELECT ... FROM chats WHERE user_id = u AND is_active = true
\* ORDER BY updated_at DESC LIMIT 5   (no statement ever clears is_active)
RecentActiveChats(u) ==
    LET own == SelectSeq2(chats, u)
    IN  SubSeq(own, 1, Min(Len(own), RECENT_CHATS_LIMIT))

\* INSERT INTO chats (...) VALUES (c, u, t or NULL, 0, true, NOW(), NOW())
InsertChatRow(c, u, t) ==
    <<[chat_id |-> c, user_id |-> u, topic |-> t, total_tokens |-> 0]>> \o chats

\* SELECT total_tokens FROM chats WHERE chat_id = c
RECURSIVE TotalRows(_, _)
TotalRows(rows, c) ==
    IF rows = <<>> THEN <<>>
    ELSE IF Head(rows).chat_id = c
         THEN <<Head(rows).total_tokens>> \o TotalRows(Tail(rows), c)
         ELSE TotalRows(Tail(rows), c)

StoredTotal(c) ==
    LET r == TotalRows(chats, c) IN IF r = <<>> THEN 0 ELSE r[1]

RECURSIVE WithoutChat(_, _)
WithoutChat(rows, c) ==
    IF rows = <<>> THEN <<>>
    ELSE IF Head(rows).chat_id = c THEN WithoutChat(Tail(rows), c)
         ELSE <<Head(rows)>> \o WithoutChat(Tail(rows), c)

RECURSIVE RowOf(_, _)
RowOf(rows, c) ==
    IF Head(rows).chat_id = c THEN Head(rows) ELSE RowOf(Tail(rows), c)

\* Seeded fault: SET total_tokens = delta, the total overwritten, not added to.
OverwriteChatTotal(c, delta) ==
    IF TotalRows(chats, c) = <<>> THEN chats
    ELSE LET row == RowOf(chats, c)
         IN  <<[row EXCEPT !.total_tokens = delta]>> \o WithoutChat(chats, c)

\* UPDATE chats SET total_tokens = total_tokens + delta, updated_at = NOW()
\* WHERE chat_id = c
UpdateChatTotal(c, delta) ==
    IF TotalRows(chats, c) = <<>> THEN chats
    ELSE LET row == RowOf(chats, c)
         IN  <<[row EXCEPT !.total_tokens = row.total_tokens + delta]>>
                 \o WithoutChat(chats, c)

\* INSERT INTO messages (...) VALUES row, row, ...
InsertMessages(c, rows) == [messages EXCEPT ![c] = Append(@, rows)]

\* ---------------------------------------------------- ChatSessionManager
\* Seeded fault: a chat of the topic is reused whatever its total.
ReusableByTopic(chat, t) ==
    chat.topic = t

\* get_or_create_chat: the chat of the result rows to reuse, or NoChat
Reusable(chat, t) ==
    chat.topic = t /\ chat.total_tokens < MaxTokensPerChat

RECURSIVE FirstReusable(_, _)
FirstReusable(existing, t) ==
    IF existing = <<>> THEN NoChat
    ELSE IF Reusable(Head(existing), t) THEN Head(existing).chat_id
         ELSE FirstReusable(Tail(existing), t)

ChatToReuse(u, t) ==
    IF t # NoTopic /\ RecentActiveChats(u) # <<>>
    THEN FirstReusable(RecentActiveChats(u), t)
    ELSE NoChat

\* Seeded fault: the check compares with a lower maximum than the router.
WithinLowerLimit(total) == ~(2 * total >= MaxTokensPerChat)

\* Seeded fault: a total exactly at the maximum still passes.
WithinLimitBelowOrAt(total) == ~(total > MaxTokensPerChat)

\* check_token_limit on the total the query returned
WithinLimit(total) == ~(total >= MaxTokensPerChat)

\* check_token_limit: its result when the query has returned its rows
TokenLimitResult(c) ==
    IF TotalRows(chats, c) # <<>> THEN WithinLimit(StoredTotal(c)) ELSE TRUE

\* Seeded fault: the turn is put at the front of the list.
AddPendingAtFront(buf, sid, role, tokens) ==
    <<[session_id |-> sid, role |-> role, tokens |-> tokens]>> \o buf

\* add_pending_message
AddPending(buf, sid, role, tokens) ==
    Append(buf, [session_id |-> sid, role |-> role, tokens |-> tokens])

\* Seeded fault: the interval has to be exceeded, reaching it is not enough.
ShouldAutoSaveAfterInterval(c) ==
    IF since_save[c] = NoTime THEN TRUE
    ELSE since_save[c] > AUTO_SAVE_INTERVAL_MINUTES

\* should_auto_save
ShouldAutoSave(c) ==
    IF since_save[c] = NoTime THEN TRUE
    ELSE since_save[c] >= AUTO_SAVE_INTERVAL_MINUTES

\* history: a save_pending_messages call as it ended
\* history: a save_pending_messages call as it ended; kept of the calls with
\* force = False that returned
CallRecord(f, result, writes) ==
    IF f \/ result = Raised THEN NoCall
    ELSE [result |-> result, writes |-> writes, age |-> 0]

\* history: a turn is appended, the call before it is no longer the last event
NoteAppend(c) == [last_call EXCEPT ![c] = NoCall]

\* Seeded fault: the timer holds a forced save back too.
SaveIsNoOpTimerGated(c, f) ==
    \/ pending_messages[c] = <<>>
    \/ ~ShouldAutoSave(c)

\* Seeded fault: neither early return is taken.
SaveAlwaysWrites(c, f) ==
    FALSE

\* Seeded fault: the test for an empty buffer is missing.
SaveIsNoOpEmptyUnchecked(c, f) ==
    ~f /\ ~ShouldAutoSave(c)

\* save_pending_messages returns 0 before touching the store
SaveIsNoOp(c, f) ==
    \/ pending_messages[c] = <<>>
    \/ ~f /\ ~ShouldAutoSave(c)

\* total_tokens = sum(msg['tokens'] for msg in messages)
SnapshotTotal(msgs) == SumTokens(msgs)

\* the list object the local `messages` of p's save_pending_messages refers to
HeldList(p) ==
    IF held[p].alias THEN pending_messages[chat_id[p]] ELSE held[p].list

\* saved_count = len(messages)
SavedCount(p) == Len(HeldList(p))

\* Seeded fault: the whole dictionary of buffers is replaced.
ClearedEveryPending(c) ==
    [b \in ChatIds |-> <<>>]

\* self.pending_messages[chat_id] = []
ClearedPending(c) == [pending_messages EXCEPT ![c] = <<>>]

\* self.last_save_time[chat_id] = datetime.utcnow()
StampedSaveTime(c) == [since_save EXCEPT ![c] = 0]

\* should_continue
ShouldContinue(msgs) ==
    IF msgs # <<>> /\ msgs[Len(msgs)] \in {"notice", "ai_phrase"}
    THEN "end" ELSE "continue"

\* ------------------------------------------------------ request coroutines
LastMessage(p) == state_messages[p][Len(state_messages[p])]

\* The request is answered: an HTTP 200 with `r`, or HTTPException(500).
Respond(p, r) ==
    /\ pc' = [pc EXCEPT ![p] = "done"]
    /\ response' = [response EXCEPT ![p] = r]

\* save_pending_messages(chat_id, force = f) up to its first store query: it
\* returns 0, or builds `values` and `total_tokens` and awaits the INSERT.
\* `after` is the place the caller continues at when 0 is returned.
BeginSave(p, c, f, who, after) ==
    /\ entry' = [entry EXCEPT ![p] = [buf |-> pending_messages[c],
                    total |-> StoredTotal(c), batches |-> Len(messages[c]),
                    since |-> since_save[c], failed |-> failed_buf[c],
                    prev |-> last_call[c]]]
    /\ batch_writes' = [batch_writes EXCEPT ![p] = 0]
    /\ force' = [force EXCEPT ![p] = f]
    /\ caller' = [caller EXCEPT ![p] = who]
    /\ IF SaveIsNoOp(c, f)
       THEN /\ saved' = [saved EXCEPT ![p] = 0]
            /\ last_call' = [last_call EXCEPT ![c] = CallRecord(f, 0, 0)]
            /\ UNCHANGED <<held, values, total_tokens>>
            /\ after
       ELSE /\ held' = [held EXCEPT ![p] = [alias |-> TRUE, list |-> <<>>]]
            /\ values' = [values EXCEPT ![p] = pending_messages[c]]
            /\ total_tokens' = [total_tokens EXCEPT ![p] =
                    SnapshotTotal(pending_messages[c])]
            /\ saved' = [saved EXCEPT ![p] = NotReturned]
            /\ pc' = [pc EXCEPT ![p] = "insert"]
            /\ UNCHANGED <<response, verdict, last_call>>
    /\ UNCHANGED failed_buf

\* The save_messages node is over: should_continue picks the edge, the graph
\* ends and chat() goes on to its forced save.
AfterAutoSave(p) ==
    /\ verdict' = [verdict EXCEPT ![p] = ShouldContinue(state_messages[p])]
    /\ pc' = [pc EXCEPT ![p] = "force"]
    /\ UNCHANGED response

\* chat() returns ChatResponse(response = result["messages"][-1].content)
ChatReturns(p) ==
    /\ Respond(p, LastMessage(p))
    /\ UNCHANGED verdict

\* end_chat_session returns {"status": "success"}
EndReturns(p) ==
    /\ Respond(p, "ended")
    /\ UNCHANGED verdict

\* A request may start on a free coroutine slot.  Requests are anonymous, so
\* the second slot is taken only while the first is busy.
CanStart(p) ==
    /\ pc[p] = "idle"
    /\ p = "p1" \/ pc["p1"] # "idle"

\* a direct caller of save_pending_messages has its result
DirectReturns(p) ==
    /\ Respond(p, "returned")
    /\ UNCHANGED verdict

\* POST /chat: chat() up to the SELECT of get_or_create_chat
Chat(p, u, t, w) ==
    /\ CanStart(p)
    /\ requests < MaxRequests
    /\ requests' = requests + 1
    /\ pc' = [pc EXCEPT ![p] = "select"]
    /\ kind' = [kind EXCEPT ![p] = "chat"]
    /\ user_id' = [user_id EXCEPT ![p] = u]
    /\ topic' = [topic EXCEPT ![p] = t]
    /\ words' = [words EXCEPT ![p] = w]
    /\ chats_before' = [chats_before EXCEPT ![p] = Len(chats)]
    /\ UNCHANGED <<dbvars, memvars, next_chat, next_session, chat_id,
                   session_id, is_new, existing_chats, info_total, readvars,
                   runvars, flushvars, response, appended, last_call,
                   failed_buf>>

\* chat() from the return of get_or_create_chat to the query of
\* check_token_limit in the process_input node
EnterGraph(p) ==
    /\ session_id' = [session_id EXCEPT ![p] = next_session]
    /\ next_session' = next_session + 1
    /\ state_messages' = [state_messages EXCEPT ![p] = <<"human">>]
    /\ pc' = [pc EXCEPT ![p] = "check"]

\* get_or_create_chat: the SELECT returns, a chat is reused or an INSERT issued
SelectChats(p) ==
    /\ pc[p] = "select"
    /\ \E outcome \in StoreOutcomes :
        /\ last_read' = [last_read EXCEPT ![p] =
                [query |-> "select", failed |-> outcome = "error"]]
        /\ IF outcome = "error"
           THEN /\ Respond(p, "error500")
                /\ UNCHANGED <<next_chat, next_session, chat_id, session_id, is_new,
                               existing_chats, info_total, state_messages>>
           ELSE IF ChatToReuse(user_id[p], topic[p]) # NoChat
           THEN /\ existing_chats' = [existing_chats EXCEPT ![p] =
                       RecentActiveChats(user_id[p])]
                /\ chat_id' = [chat_id EXCEPT ![p] = ChatToReuse(user_id[p], topic[p])]
                /\ is_new' = [is_new EXCEPT ![p] = FALSE]
                /\ info_total' = [info_total EXCEPT ![p] =
                       RowOf(chats, ChatToReuse(user_id[p], topic[p])).total_tokens]
                /\ EnterGraph(p)
                /\ UNCHANGED <<next_chat, response>>
           ELSE /\ next_chat <= MaxChats
                /\ existing_chats' = [existing_chats EXCEPT ![p] =
                       RecentActiveChats(user_id[p])]
                /\ chat_id' = [chat_id EXCEPT ![p] = next_chat]
                /\ next_chat' = next_chat + 1
                /\ pc' = [pc EXCEPT ![p] = "create"]
                /\ UNCHANGED <<next_session, session_id, is_new, info_total,
                               state_messages, response>>
    /\ UNCHANGED <<dbvars, memvars, requests, kind, user_id, topic, words,
                   chats_before, within_limit, llm_calls, llm_retries, verdict,
                   flushvars, appended, last_call, failed_buf, listed>>

\* get_or_create_chat: the INSERT INTO chats returns
CreateChat(p) ==
    /\ pc[p] = "create"
    /\ \E outcome \in StoreOutcomes :
        IF outcome = "error"
        THEN /\ Respond(p, "error500")
             /\ UNCHANGED <<chats, next_session, session_id, is_new, info_total,
                            state_messages>>
        ELSE /\ chats' = InsertChatRow(chat_id[p], user_id[p], topic[p])
             /\ is_new' = [is_new EXCEPT ![p] = TRUE]
             /\ info_total' = [info_total EXCEPT ![p] = 0]
             /\ EnterGraph(p)
             /\ UNCHANGED response
    /\ UNCHANGED <<messages, memvars, requests, next_chat, kind, user_id,
                   topic, words, chat_id, existing_chats, chats_before,
                   within_limit, llm_calls, llm_retries, readvars,
                   verdict, flushvars, appended, last_call, failed_buf>>

\* Seeded fault: the error of the query is swallowed and the run goes on.
CheckSwallowed(p) ==
    /\ pc' = [pc EXCEPT ![p] = "llm"]
    /\ UNCHANGED response

\* check_token_limit and process_input have no handler: the error of the
\* query leaves the graph and reaches the except clause of chat()
CheckRaised(p) ==
    Respond(p, "error500")

\* process_input: the query of check_token_limit returns; then the
\* generate_response node runs up to llm.ainvoke
CheckTokenLimit(p) ==
    /\ pc[p] = "check"
    /\ \E outcome \in StoreOutcomes :
        /\ last_read' = [last_read EXCEPT ![p] =
                [query |-> "check", failed |-> outcome = "error"]]
        /\ IF outcome = "error"
           THEN /\ CheckRaised(p)
                /\ UNCHANGED <<state_messages, within_limit, llm_calls, llm_retries>>
           ELSE /\ within_limit' = [within_limit EXCEPT ![p] =
                       TokenLimitResult(chat_id[p])]
                /\ state_messages' = [state_messages EXCEPT ![p] =
                       IF within_limit'[p] THEN @ ELSE Append(@, "notice")]
                /\ llm_calls' = [llm_calls EXCEPT ![p] = @ + 1]
                /\ UNCHANGED llm_retries
                /\ pc' = [pc EXCEPT ![p] = "llm"]
                /\ UNCHANGED response
    /\ UNCHANGED <<dbvars, memvars, envvars, reqvars, listed, verdict, flushvars,
                   appended, last_call, failed_buf>>

\* the kind of AIMessage an LLM reply becomes
ReplyKind(r) == IF r.phrase THEN "ai_phrase" ELSE "ai"

\* generate_response: both add_pending_message calls, user turn first
BufferTurnPair(buf, sid, w, r) ==
    AddPending(AddPending(buf, sid, "user", EstimateTokens(w)),
               sid, "assistant", EstimateTokens(r.words))

\* get_llm: ChatGroq(max_retries = 3); the client resends a request that
\* failed or timed out up to this many times before llm.ainvoke raises
LLM_MAX_RETRIES == 3

\* the numbers of resent requests a raising llm.ainvoke can have behind it:
\* none when the error is not retried, all of them when every request failed
RetriesBeforeRaise == 0..LLM_MAX_RETRIES

\* generate_response: llm.ainvoke returns or raises; the node runs to its end.
\* llm_retries records the resent requests behind a raised ainvoke only.
GenerateResponse(p) ==
    /\ pc[p] = "llm"
    /\ \/ \E r \in Replies :
            /\ state_messages' = [state_messages EXCEPT ![p] = Append(@, ReplyKind(r))]
            /\ pending_messages' = [pending_messages EXCEPT ![chat_id[p]] =
                    BufferTurnPair(@, session_id[p], words[p], r)]
            /\ appended' = [appended EXCEPT ![chat_id[p]] =
                    BufferTurnPair(@, session_id[p], words[p], r)]
            /\ last_call' = NoteAppend(chat_id[p])
            /\ UNCHANGED llm_retries
       \/ /\ state_messages' = [state_messages EXCEPT ![p] = Append(@, "apology")]
          /\ \E k \in RetriesBeforeRaise :
                llm_retries' = [llm_retries EXCEPT ![p] = k]
          /\ UNCHANGED <<pending_messages, appended, last_call>>
    /\ pc' = [pc EXCEPT ![p] = "save"]
    /\ UNCHANGED <<dbvars, since_save, envvars, reqvars, readvars, within_limit,
                   llm_calls, verdict, flushvars, response, failed_buf>>

\* the save_messages node: save_pending_messages(force = False) is entered
SaveMessages(p) ==
    /\ pc[p] = "save"
    /\ BeginSave(p, chat_id[p], FALSE, "auto", AfterAutoSave(p))
    /\ UNCHANGED <<dbvars, memvars, envvars, reqvars, readvars, state_messages,
                   within_limit, llm_calls, llm_retries, appended>>

\* Seeded fault: chat() leaves force at its default.
ChatSaveUnforced == FALSE

\* chat(): save_pending_messages(..., force=True)
ChatSaveForce == TRUE

\* chat(): the forced save after agent_graph.ainvoke is entered
ForceSave(p) ==
    /\ pc[p] = "force"
    /\ BeginSave(p, chat_id[p], ChatSaveForce, "force", ChatReturns(p))
    /\ UNCHANGED <<dbvars, memvars, envvars, reqvars, readvars, state_messages,
                   within_limit, llm_calls, llm_retries, appended>>

\* POST /chat/{chat_id}/end: end_session enters save_pending_messages(force = True)
EndSession(p, c) ==
    /\ CanStart(p)
    /\ requests' = requests + 1
    /\ kind' = [kind EXCEPT ![p] = "end"]
    /\ chat_id' = [chat_id EXCEPT ![p] = c]
    /\ BeginSave(p, c, TRUE, "end", EndReturns(p))
    /\ UNCHANGED <<dbvars, memvars, next_chat, next_session, user_id, topic,
                   words, session_id, is_new, existing_chats, info_total,
                   chats_before, state_messages, within_limit, llm_calls,
                   llm_retries, readvars, appended>>

\* Seeded fault: the buffer is cleared on the way out of the except clause.
ClearedAfterRaise(c) ==
    ClearedPending(c)

\* except Exception: logger.error(...); raise   leaves the buffer as it is
PendingAfterRaise(c) ==
    pending_messages

\* Seeded fault: the except clause stamps the save time.
StampedAfterRaise(c) ==
    StampedSaveTime(c)

\* except Exception: logger.error(...); raise   leaves last_save_time as it is
SaveTimeAfterRaise(c) ==
    since_save

\* save_pending_messages raised: save_messages catches and logs it, chat() and
\* end_chat_session turn it into HTTPException(500), a direct caller sees it
SaveRaised(p) ==
    /\ saved' = [saved EXCEPT ![p] = Raised]
    /\ held' = [held EXCEPT ![p] = NoHeld]
    /\ pending_messages' = PendingAfterRaise(chat_id[p])
    /\ last_call' = [last_call EXCEPT ![chat_id[p]] =
            CallRecord(force[p], Raised, batch_writes[p])]
    /\ failed_buf' = [failed_buf EXCEPT ![chat_id[p]] = values[p]]
    /\ since_save' = SaveTimeAfterRaise(chat_id[p])
    /\ IF caller[p] = "auto" THEN AfterAutoSave(p)
       ELSE IF caller[p] = "direct" THEN Respond(p, "raised") /\ UNCHANGED verdict
       ELSE Respond(p, "error500") /\ UNCHANGED verdict

\* save_pending_messages returned n to its caller
SaveReturned(p, n) ==
    /\ saved' = [saved EXCEPT ![p] = n]
    /\ last_call' = [last_call EXCEPT ![chat_id[p]] =
            CallRecord(force[p], n, batch_writes[p])]
    /\ failed_buf' = [failed_buf EXCEPT ![chat_id[p]] = <<>>]
    /\ IF caller[p] = "auto" THEN AfterAutoSave(p)
       ELSE IF caller[p] = "force" THEN ChatReturns(p)
       ELSE IF caller[p] = "end" THEN EndReturns(p)
       ELSE DirectReturns(p)

\* save_pending_messages: the INSERT INTO messages returns
InsertPending(p) ==
    /\ pc[p] = "insert"
    /\ \E outcome \in StoreOutcomes :
        IF outcome = "error"
        THEN /\ SaveRaised(p)
             /\ UNCHANGED <<messages, batch_writes>>
        ELSE /\ messages' = InsertMessages(chat_id[p], values[p])
             /\ batch_writes' = [batch_writes EXCEPT ![p] = @ + 1]
             /\ pc' = [pc EXCEPT ![p] = "update"]
             /\ UNCHANGED <<held, saved, verdict, response, memvars, last_call,
                            failed_buf>>
    /\ UNCHANGED <<chats, envvars, reqvars, readvars, state_messages, within_limit,
                   llm_calls, llm_retries, force, caller, values, total_tokens, entry, appended>>

\* Rebinding self.pending_messages[c] leaves every other running save of c
\* with the old list object.
HeldAfterClear(p, c) ==
    [q \in Procs |->
        IF q = p THEN NoHeld
        ELSE IF pc[q] \in {"insert", "update"} /\ chat_id[q] = c /\ held[q].alias
        THEN [alias |-> FALSE, list |-> pending_messages[c]]
        ELSE held[q]]

\* save_pending_messages: the UPDATE chats returns; the buffer is cleared
UpdateTotal(p) ==
    /\ pc[p] = "update"
    /\ \E outcome \in StoreOutcomes :
        IF outcome = "error"
        THEN /\ SaveRaised(p)
             /\ UNCHANGED chats
        ELSE /\ chats' = UpdateChatTotal(chat_id[p], total_tokens[p])
             /\ pending_messages' = ClearedPending(chat_id[p])
             /\ since_save' = StampedSaveTime(chat_id[p])
             /\ held' = HeldAfterClear(p, chat_id[p])
             /\ SaveReturned(p, SavedCount(p))
    /\ UNCHANGED <<messages, envvars, reqvars, readvars, state_messages, within_limit,
                   llm_calls, llm_retries, force, caller, values, total_tokens, entry,
                   batch_writes, appended>>

\* The response has been sent; the coroutine is gone.
Return(p) ==
    /\ pc[p] = "done"
    /\ pc' = [pc EXCEPT ![p] = "idle"]
    /\ kind' = [kind EXCEPT ![p] = "none"]
    /\ user_id' = [user_id EXCEPT ![p] = "none"]
    /\ topic' = [topic EXCEPT ![p] = NoTopic]
    /\ words' = [words EXCEPT ![p] = 0]
    /\ chat_id' = [chat_id EXCEPT ![p] = NoChat]
    /\ session_id' = [session_id EXCEPT ![p] = 0]
    /\ is_new' = [is_new EXCEPT ![p] = FALSE]
    /\ state_messages' = [state_messages EXCEPT ![p] = <<>>]
    /\ force' = [force EXCEPT ![p] = FALSE]
    /\ caller' = [caller EXCEPT ![p] = "none"]
    /\ held' = [held EXCEPT ![p] = NoHeld]
    /\ values' = [values EXCEPT ![p] = <<>>]
    /\ total_tokens' = [total_tokens EXCEPT ![p] = 0]
    /\ saved' = [saved EXCEPT ![p] = NotReturned]
    /\ entry' = [entry EXCEPT ![p] = NoEntry]
    /\ batch_writes' = [batch_writes EXCEPT ![p] = 0]
    /\ within_limit' = [within_limit EXCEPT ![p] = TRUE]
    /\ llm_calls' = [llm_calls EXCEPT ![p] = 0]
    /\ llm_retries' = [llm_retries EXCEPT ![p] = 0]
    /\ verdict' = [verdict EXCEPT ![p] = "none"]
    /\ response' = [response EXCEPT ![p] = "none"]
    /\ existing_chats' = [existing_chats EXCEPT ![p] = <<>>]
    /\ info_total' = [info_total EXCEPT ![p] = 0]
    /\ chats_before' = [chats_before EXCEPT ![p] = 0]
    /\ last_read' = [last_read EXCEPT ![p] = NoRead]
    /\ listed' = [listed EXCEPT ![p] = <<>>]
    /\ UNCHANGED <<dbvars, memvars, envvars, appended, last_call, failed_buf>>

\* A minute passes.  Past the auto-save interval the code reads no difference.
Aged(t) ==
    IF t = NoTime \/ t >= AUTO_SAVE_INTERVAL_MINUTES THEN t ELSE t + 1

\* history: the minutes since the last call on the chat ended; the call is
\* forgotten when the auto-save interval has passed
AgedCall(r) ==
    IF r = NoCall THEN r
    ELSE IF r.age + 1 >= AUTO_SAVE_INTERVAL_MINUTES THEN NoCall
    ELSE [r EXCEPT !.age = @ + 1]

Tick ==
    /\ \E c \in ChatIds : \/ Aged(since_save[c]) # since_save[c]
                          \/ AgedCall(last_call[c]) # last_call[c]
    /\ since_save' = [c \in ChatIds |-> Aged(since_save[c])]
    /\ last_call' = [c \in ChatIds |-> AgedCall(last_call[c])]
    /\ UNCHANGED <<dbvars, pending_messages, envvars, pc, reqvars, readvars, runvars,
                   flushvars, response, appended, failed_buf>>

\* POST /chat/{chat_id}/end
EndRequest(p, c) ==
    /\ requests < MaxRequests
    /\ EndSession(p, c)

Step(p) ==
    \/ \E u \in Users, t \in Topics \cup {NoTopic}, w \in UserWords : Chat(p, u, t, w)
    \/ \E c \in ChatIds : EndRequest(p, c)
    \/ SelectChats(p)
    \/ CreateChat(p)
    \/ CheckTokenLimit(p)
    \/ GenerateResponse(p)
    \/ SaveMessages(p)
    \/ ForceSave(p)
    \/ InsertPending(p)
    \/ UpdateTotal(p)

\* chat_manager.add_pending_message called on its own, as generate_response
\* calls it, for a chat of the store
AddPendingMessage(p, c, role, w) ==
    /\ pc[p] = "idle"
    /\ next_session <= MaxTurns
    /\ TotalRows(chats, c) # <<>>
    /\ pending_messages' = [pending_messages EXCEPT ![c] =
            AddPending(@, next_session, role, EstimateTokens(w))]
    /\ appended' = [appended EXCEPT ![c] =
            AddPending(@, next_session, role, EstimateTokens(w))]
    /\ next_session' = next_session + 1
    /\ last_call' = NoteAppend(c)
    /\ UNCHANGED <<dbvars, since_save, requests, next_chat, pc, reqvars, readvars, runvars,
                   flushvars, response, failed_buf>>

\* chat_manager.save_pending_messages(c, force = f) called on its own
SavePendingMessages(p, c, f) ==
    /\ pc[p] = "idle"
    /\ requests < MaxSaves
    /\ requests' = requests + 1
    /\ kind' = [kind EXCEPT ![p] = "save"]
    /\ chat_id' = [chat_id EXCEPT ![p] = c]
    /\ BeginSave(p, c, f, "direct", DirectReturns(p))
    /\ UNCHANGED <<dbvars, memvars, next_chat, next_session, user_id, topic,
                   words, session_id, is_new, existing_chats, info_total,
                   chats_before, state_messages, within_limit, llm_calls,
                   llm_retries, readvars, appended>>

\* chat_manager.end_session(c) called on its own
EndSessionCall(p, c) ==
    /\ requests < MaxSaves
    /\ EndSession(p, c)

\* ------------------------------------------------------ read operations
\* load_chat_history(limit = 50), load_chat_messages(limit = 100)
HISTORY_LIMIT == 50
MESSAGES_LIMIT == 100

\* SELECT c.*, COUNT(m.message_id) ... WHERE c.user_id = u GROUP BY ...
\* ORDER BY c.updated_at DESC LIMIT limit
ChatsWithCounts(u) ==
    LET own == SelectSeq2(chats, u)
        n == Min(Len(own), HISTORY_LIMIT)
    IN  [i \in 1..n |->
            [chat_id |-> own[i].chat_id, topic |-> own[i].topic,
             total_tokens |-> own[i].total_tokens,
             message_count |-> Len(Flatten(messages[own[i].chat_id]))]]

\* SELECT ... FROM messages WHERE chat_id = c ORDER BY created_at ASC LIMIT limit
MessagesOf(c) ==
    LET all == Flatten(messages[c])
    IN  SubSeq(all, 1, Min(Len(all), MESSAGES_LIMIT))

\* GET /chat/history up to the query of load_chat_history
GetChatHistory(p, u) ==
    /\ CanStart(p)
    /\ requests < MaxRequests
    /\ requests' = requests + 1
    /\ kind' = [kind EXCEPT ![p] = "history"]
    /\ user_id' = [user_id EXCEPT ![p] = u]
    /\ pc' = [pc EXCEPT ![p] = "history"]
    /\ UNCHANGED <<dbvars, memvars, next_chat, next_session, topic, words,
                   chat_id, session_id, is_new, existing_chats, info_total,
                   chats_before, readvars, runvars, flushvars, response,
                   appended, last_call, failed_buf>>

\* load_chat_history: the query returns its rows, or raises and the except
\* clause returns []; get_chat_history answers with what it was handed
LoadChatHistory(p) ==
    /\ pc[p] = "history"
    /\ \E outcome \in StoreOutcomes :
        /\ last_read' = [last_read EXCEPT ![p] =
                [query |-> "history", failed |-> outcome = "error"]]
        /\ listed' = [listed EXCEPT ![p] =
                IF outcome = "error" THEN <<>> ELSE ChatsWithCounts(user_id[p])]
    /\ Respond(p, "history")
    /\ UNCHANGED <<dbvars, memvars, envvars, reqvars, runvars, flushvars,
                   appended, last_call, failed_buf>>

\* GET /chat/{chat_id}/messages up to the query of load_chat_messages
GetChatMessages(p, c) ==
    /\ CanStart(p)
    /\ requests < MaxRequests
    /\ requests' = requests + 1
    /\ kind' = [kind EXCEPT ![p] = "messages"]
    /\ chat_id' = [chat_id EXCEPT ![p] = c]
    /\ pc' = [pc EXCEPT ![p] = "messages"]
    /\ UNCHANGED <<dbvars, memvars, next_chat, next_session, user_id, topic,
                   words, session_id, is_new, existing_chats, info_total,
                   chats_before, readvars, runvars, flushvars, response,
                   appended, last_call, failed_buf>>

\* load_chat_messages: the query returns its rows, or raises; the except
\* clause re-raises and get_chat_messages answers HTTPException(500)
LoadChatMessages(p) ==
    /\ pc[p] = "messages"
    /\ \E outcome \in StoreOutcomes :
        /\ last_read' = [last_read EXCEPT ![p] =
                [query |-> "messages", failed |-> outcome = "error"]]
        /\ IF outcome = "error"
           THEN /\ Respond(p, "error500")
                /\ UNCHANGED listed
           ELSE /\ listed' = [listed EXCEPT ![p] = MessagesOf(chat_id[p])]
                /\ Respond(p, "messages")
    /\ UNCHANGED <<dbvars, memvars, envvars, reqvars, runvars, flushvars,
                   appended, last_call, failed_buf>>

\* the read requests of a coroutine slot
ReadStep(p) ==
    \/ \E u \in Users : GetChatHistory(p, u)
    \/ LoadChatHistory(p)
    \/ \E c \in ChatIds : GetChatMessages(p, c)
    \/ LoadChatMessages(p)

\* Concurrent requests, one on each coroutine slot.
Next == Tick \/ \E p \in Procs : Step(p)

Spec == Init /\ [][Next]_vars

\* Requests one after the other: a request starts when the one before it has
\* been answered.
NextSeq == Tick \/ Step("p1") \/ ReadStep("p1") \/ Return("p1")

SpecSeq == Init /\ [][NextSeq]_vars

\* One caller driving the ChatSessionManager itself, call after call.
NextApi ==
    \/ Tick
    \/ \E c \in ApiChats, w \in TurnWords : AddPendingMessage("p1", c, "user", w)
    \/ \E c \in ApiChats, f \in BOOLEAN : SavePendingMessages("p1", c, f)
    \/ \E c \in ApiChats : EndSessionCall("p1", c)
    \/ InsertPending("p1")
    \/ UpdateTotal("p1")
    \/ Return("p1")

SpecApi == InitApi /\ [][NextApi]_vars

\* check_token_limit on its own, on chats of every stored total from 0 to
\* twice the maximum, and on a chat id that has no row
GateMaxTotal == 2 * MaxTokensPerChat

\* the one stored turn that accounts for a stored total
StoredTurns(total) ==
    IF total = 0 THEN <<>>
    ELSE <<[session_id |-> 0, role |-> "user", tokens |-> total]>>

InitGate ==
    /\ \E t1 \in 0..GateMaxTotal, t2 \in -1..GateMaxTotal :
        /\ chats = <<[chat_id |-> 1, user_id |-> "u1", topic |-> "billing",
                      total_tokens |-> t1]>>
                   \o (IF t2 < 0 THEN <<>>
                       ELSE <<[chat_id |-> 2, user_id |-> "u1",
                               topic |-> NoTopic, total_tokens |-> t2]>>)
        /\ messages = [c \in ChatIds |->
                LET t == IF c = 1 THEN t1 ELSE IF c = 2 /\ t2 > 0 THEN t2 ELSE 0
                IN  IF t = 0 THEN <<>> ELSE <<StoredTurns(t)>>]
        /\ appended = [c \in ChatIds |->
                StoredTurns(IF c = 1 THEN t1 ELSE IF c = 2 /\ t2 > 0 THEN t2 ELSE 0)]
    /\ next_chat = 3
    /\ InitRequests

\* chat_manager.check_token_limit(c) called on its own: its query returns
\* or raises, and the caller has the result or the exception
CheckTokenLimitCall(p, c) ==
    /\ pc[p] = "idle"
    /\ requests < MaxSaves
    /\ requests' = requests + 1
    /\ kind' = [kind EXCEPT ![p] = "check"]
    /\ chat_id' = [chat_id EXCEPT ![p] = c]
    /\ \E outcome \in StoreOutcomes :
        /\ last_read' = [last_read EXCEPT ![p] =
                [query |-> "check", failed |-> outcome = "error"]]
        /\ IF outcome = "error"
           THEN /\ Respond(p, "raised")
                /\ UNCHANGED within_limit
           ELSE /\ within_limit' = [within_limit EXCEPT ![p] = TokenLimitResult(c)]
                /\ Respond(p, "returned")
    /\ UNCHANGED <<dbvars, memvars, next_chat, next_session, user_id, topic,
                   words, session_id, is_new, existing_chats, info_total,
                   chats_before, listed, state_messages, llm_calls, llm_retries,
                   verdict, flushvars, appended, last_call, failed_buf>>

NextGate ==
    \/ \E c \in ApiChats, w \in TurnWords : AddPendingMessage("p1", c, "user", w)
    \/ \E c \in ApiChats : CheckTokenLimitCall("p1", c)
    \/ Return("p1")

SpecGate == InitGate /\ [][NextGate]_vars

\* get_or_create_chat on its own, on the stores earlier requests can have
\* left: up to RouterMaxRows chats, most recently updated first, of two users
\* and two topics, under the maximum or at it.
RouterMaxRows == 6
RouterUsers == {"u1", "u2"}
RouterTopics == {"billing", "refund"}
RouterRows ==
    {[user_id |-> "u1", topic |-> "billing", total_tokens |-> MaxTokensPerChat - 1],
     [user_id |-> "u1", topic |-> "billing", total_tokens |-> MaxTokensPerChat],
     [user_id |-> "u1", topic |-> "refund", total_tokens |-> 0],
     [user_id |-> "u2", topic |-> "billing", total_tokens |-> 0]}

\* the chat ids of the stored rows are none of those generate_chat_id hands out
StoredChatId(i) == MaxChats + i

InitRouter ==
    /\ \E n \in 0..RouterMaxRows : \E rows \in [1..n -> RouterRows] :
            chats = [i \in 1..n |->
                        [chat_id |-> StoredChatId(i), user_id |-> rows[i].user_id,
                         topic |-> rows[i].topic,
                         total_tokens |-> rows[i].total_tokens]]
    /\ messages = [c \in ChatIds |-> <<>>]
    /\ appended = [c \in ChatIds |-> <<>>]
    /\ next_chat = 1
    /\ InitRequests

NextRouter ==
    \/ \E u \in RouterUsers, t \in RouterTopics \cup {NoTopic}, w \in UserWords :
            Chat("p1", u, t, w)
    \/ SelectChats("p1")
    \/ CreateChat("p1")

SpecRouter == InitRouter /\ [][NextRouter]_vars

\* The caller of SpecApi flushing while another coroutine (a run inside
\* generate_response) appends: add_pending_message has no await, so it runs
\* whenever the flushing coroutine is suspended in a store call or idle.
NextLive ==
    \/ NextApi
    \/ \E c \in ApiChats, w \in TurnWords : AddPendingMessage("p2", c, "user", w)

\* The event loop resumes a coroutine whose query has ended; a store that
\* is asked again and again does not fail forever; the session of every chat
\* is ended as long as the caller has calls left.
Fairness ==
    /\ WF_vars(InsertPending("p1"))
    /\ WF_vars(UpdateTotal("p1"))
    /\ WF_vars(Return("p1"))
    /\ SF_vars(InsertPending("p1") /\ pc'["p1"] = "update")
    /\ SF_vars(UpdateTotal("p1") /\ saved'["p1"] >= 0)
    /\ \A c \in ApiChats : SF_vars(EndSessionCall("p1", c))

SpecLive == InitApi /\ [][NextLive]_vars /\ Fairness

\* ------------------------------------------------------------ properties
\* In the formulas below a save_pending_messages call that has ended is seen
\* in the state where its caller has the result (pc = "done" for a direct
\* caller): `entry` holds what the call found, `saved` what it returned.

\* C1: a save_pending_messages(force = True) call that returns, made on a
\* buffer of N >= 1 appended turns with nothing else done on the chat in
\* between, leaves the stored total_tokens at its value before plus the sum of
\* the N token counts, has written the N turns as one batch of N rows, returns
\* N and leaves the buffer of the chat empty.
AccountingAfterForcedFlush ==
    \A p \in Procs :
        (pc[p] = "done" /\ force[p] /\ entry[p].buf # <<>> /\ saved[p] >= 0) =>
            LET c == chat_id[p]
            IN  /\ StoredTotal(c) = entry[p].total + SumTokens(entry[p].buf)
                /\ Len(messages[c]) = entry[p].batches + 1
                /\ messages[c][Len(messages[c])] = entry[p].buf
                /\ saved[p] = Len(entry[p].buf)
                /\ pending_messages[c] = <<>>

\* C1 witness: a forced save of two appended turns has returned, on a chat
\* whose stored total was not zero.
ForcedFlushOfTwoTurns ==
    \E p \in Procs :
        /\ pc[p] = "done" /\ force[p] /\ saved[p] = 2
        /\ Len(entry[p].buf) = 2 /\ entry[p].total > 0
        /\ SumTokens(entry[p].buf) > 0

\* C2 (the claim as stated): over appends and saves on one chat in which
\* each store call may fail, no turn is in the message store twice, every
\* turn ever appended is in the buffer or in the store, and every call that
\* has ended either wrote the whole buffer and cleared it or left the store's
\* messages and the buffer as they were.
EachTurnWrittenOnceAllOrNothing ==
    /\ \A c \in ChatIds :
        LET stored == Flatten(messages[c])
        IN  /\ \A i, j \in 1..Len(stored) : stored[i] = stored[j] => i = j
            /\ \A i \in 1..Len(appended[c]) :
                \/ \E j \in 1..Len(stored) : stored[j] = appended[c][i]
                \/ \E j \in 1..Len(pending_messages[c]) :
                        pending_messages[c][j] = appended[c][i]
    /\ \A p \in Procs :
        (pc[p] = "done" /\ saved[p] # NotReturned) =>
            LET c == chat_id[p]
            IN  \/ /\ Len(messages[c]) = entry[p].batches + 1
                   /\ messages[c][Len(messages[c])] = entry[p].buf
                   /\ pending_messages[c] = <<>>
                \/ /\ Len(messages[c]) = entry[p].batches
                   /\ pending_messages[c] = entry[p].buf

\* C3 (the claim as stated): a run whose check_token_limit found the stored
\* total at or over max_tokens_per_chat does not invoke the LLM, ends with
\* should_continue = "end", and answers with the maximum-length notice.
BudgetClosesConversation ==
    \A p \in Procs :
        ~within_limit[p] =>
            /\ llm_calls[p] = 0
            /\ verdict[p] \in {"none", "end"}
            /\ (pc[p] = "done" /\ response[p] # "error500") => response[p] = "notice"

\* C4: a save_pending_messages(force = True) call that returns, from
\* end_session or made directly, on a non-empty buffer has executed exactly
\* one INSERT INTO messages and leaves the buffer empty, whatever the time
\* since the last save.
ForcedFlushAlwaysDrains ==
    \A p \in Procs :
        (pc[p] = "done" /\ force[p] /\ entry[p].buf # <<>> /\ saved[p] # Raised) =>
            /\ batch_writes[p] = 1
            /\ saved[p] > 0
            /\ pending_messages[chat_id[p]] = <<>>

\* C4 witness: end_session has drained a buffer less than the auto-save
\* interval after the last save.
EndSessionDrainsBeforeInterval ==
    \E p \in Procs :
        /\ pc[p] = "done" /\ kind[p] = "end" /\ entry[p].buf # <<>>
        /\ entry[p].since # NoTime /\ entry[p].since < AUTO_SAVE_INTERVAL_MINUTES
        /\ batch_writes[p] = 1 /\ pending_messages[chat_id[p]] = <<>>

\* C5 (the claim as stated): of two save_pending_messages(force = False)
\* calls on a chat that return, the second less than the auto-save interval
\* after the first and with no append in between, at most one executes the
\* INSERT INTO messages, and the second returns 0.
NoDoubleFlush ==
    \A p \in Procs :
        (pc[p] = "done" /\ ~force[p] /\ saved[p] >= 0 /\ entry[p].prev # NoCall) =>
            /\ entry[p].prev.writes + batch_writes[p] <= 1
            /\ saved[p] = 0

\* C5 (amended): of two save_pending_messages(force = False) calls on a
\* chat, the second less than the auto-save interval after the first has
\* returned and with no append in between, at most one executes the INSERT
\* INTO messages; the second returns 0 if the first executed it, or if at
\* the second call the auto-save interval has not passed since the last save.
\* However the second call ends: it may also raise.
NoDoubleFlushUnlessIntervalPassed ==
    \A p \in Procs :
        (pc[p] = "done" /\ ~force[p] /\ entry[p].prev # NoCall) =>
            /\ entry[p].prev.writes + batch_writes[p] <= 1
            /\ (\/ entry[p].prev.writes = 1
                \/ /\ entry[p].since # NoTime
                   /\ entry[p].since < AUTO_SAVE_INTERVAL_MINUTES)
               => saved[p] = 0

\* C5 witness: the first call wrote the buffer and the second, right after
\* it, returned 0 without a write.
SecondFlushAfterWriteReturnsZero ==
    \E p \in Procs :
        /\ pc[p] = "done" /\ ~force[p] /\ saved[p] = 0 /\ batch_writes[p] = 0
        /\ entry[p].prev # NoCall /\ entry[p].prev.writes = 1
        /\ entry[p].prev.result > 0

\* C6: with the calls on a chat made one after the other, the turns buffered
\* when a save_pending_messages call raised stay at the front of the buffer,
\* in their order, until a call succeeds; the forced call that then returns
\* writes one batch that starts with exactly those turns, followed by the
\* turns appended since.
FailedFlushKeepsTurns ==
    /\ \A c \in ChatIds :
        /\ Len(failed_buf[c]) <= Len(pending_messages[c])
        /\ SubSeq(pending_messages[c], 1, Len(failed_buf[c])) = failed_buf[c]
    /\ \A p \in Procs :
        (pc[p] = "done" /\ force[p] /\ saved[p] >= 0 /\ entry[p].failed # <<>>) =>
            LET c == chat_id[p]
                batch == messages[c][Len(messages[c])]
            IN  /\ Len(messages[c]) = entry[p].batches + 1
                /\ batch = entry[p].buf
                /\ Len(entry[p].failed) <= Len(batch)
                /\ SubSeq(batch, 1, Len(entry[p].failed)) = entry[p].failed
                /\ pending_messages[c] = <<>>

\* C6 witness: a forced save has written the turns of a failed save
\* together with a turn appended after the failure.
RetryPersistsFailedTurns ==
    \E p \in Procs :
        /\ pc[p] = "done" /\ force[p] /\ saved[p] > 0
        /\ entry[p].failed # <<>>
        /\ Len(entry[p].buf) > Len(entry[p].failed)
        /\ messages[chat_id[p]][Len(messages[chat_id[p]])] = entry[p].buf

AccountingInvariant ==
    \A c \in ChatIds :
        (\A p \in Procs : ~(pc[p] \in {"insert", "update"} /\ chat_id[p] = c)) =>
            StoredTotal(c) + SumTokens(pending_messages[c]) = SumTokens(appended[c])

\* C9 (the claim as stated): a run whose check_token_limit found the stored
\* total of its chat at or over max_tokens_per_chat appends no turn to the
\* buffer of that chat.
ClosedToNewTurns ==
    \A p \in Procs :
        ~within_limit[p] =>
            \A i \in 1..Len(appended[chat_id[p]]) :
                appended[chat_id[p]][i].session_id # session_id[p]

\* C10 (the claim as stated): after a save_pending_messages call has
\* returned or raised, either its batch is in table messages and the chat's
\* total_tokens has grown by the batch's token counts, or table messages and
\* the total are as the call found them.
FlushWriteAtomic ==
    \A p \in Procs :
        (pc[p] = "done" /\ saved[p] # NotReturned) =>
            LET c == chat_id[p]
            IN  \/ /\ Len(messages[c]) = entry[p].batches + 1
                   /\ StoredTotal(c) =
                        entry[p].total + SumTokens(messages[c][Len(messages[c])])
                \/ /\ Len(messages[c]) = entry[p].batches
                   /\ StoredTotal(c) = entry[p].total

\* C11: a save_pending_messages call that went to the store and ended with
\* the chat's total_tokens not raised (a store call failed) has raised to its
\* caller and reported no turn as saved; the buffer of the chat is the buffer
\* the call found, and last_save_time is the one it found: still unset, or
\* only older.
FailedFlushLeavesMemory ==
    \A p \in Procs :
        LET c == chat_id[p]
        IN  (/\ pc[p] = "done" /\ saved[p] # NotReturned
             /\ entry[p].buf # <<>> /\ SumTokens(entry[p].buf) > 0
             /\ \/ force[p]
                \/ entry[p].since = NoTime
                \/ entry[p].since >= AUTO_SAVE_INTERVAL_MINUTES
             /\ StoredTotal(c) = entry[p].total) =>
                /\ saved[p] = Raised
                /\ response[p] \in {"raised", "error500"}
                /\ pending_messages[c] = entry[p].buf
                /\ (since_save[c] = NoTime) <=> (entry[p].since = NoTime)
                /\ since_save[c] >= entry[p].since

\* C11 witness: a forced save whose UPDATE failed has raised, with the buffer
\* kept and a save time set by an earlier save.
FlushRaisedAfterInsert ==
    \E p \in Procs :
        /\ pc[p] = "done" /\ saved[p] = Raised /\ batch_writes[p] = 1
        /\ entry[p].since # NoTime
        /\ pending_messages[chat_id[p]] = entry[p].buf
        /\ entry[p].buf # <<>>

\* C12 (the claim as stated): when a save_pending_messages call of one run
\* ends its suspension in the store and clears the buffer, every turn that
\* another run appended to the chat's buffer after the call took its snapshot
\* is still in the buffer or is in table messages, and is there once.
AppendDuringFlushKept ==
    [][\A p \in Procs :
        (pc[p] = "update" /\ pc'[p] # "update" /\ saved'[p] >= 0) =>
            LET c == chat_id[p]
                stored == Flatten(messages'[c])
            IN  \A i \in 1..Len(pending_messages[c]) :
                    LET t == pending_messages[c][i]
                        n == Cardinality({j \in 1..Len(stored) : stored[j] = t})
                    IN  (\A j \in 1..Len(values[p]) : values[p][j] # t) =>
                            /\ n <= 1
                            /\ \/ n = 1
                               \/ \E j \in 1..Len(pending_messages'[c]) :
                                    pending_messages'[c][j] = t]_vars

\* C13 (the claim as stated): no two save_pending_messages calls on the same
\* chat are between their entry to the store and their end at the same time.
OneFlushInFlight ==
    \A p, q \in Procs :
        (/\ p # q
         /\ pc[p] \in {"insert", "update"}
         /\ pc[q] \in {"insert", "update"}) => chat_id[p] # chat_id[q]

\* C14 (the claim as stated): a run whose provider call failed has sent the
\* provider exactly one request, none of them resent; the apology is the
\* run's reply, the run ends without an error, and its verdict is "continue".
ProviderFailureNotRetried ==
    \A p \in Procs :
        (/\ kind[p] = "chat" /\ pc[p] \in {"force", "done"}
         /\ state_messages[p] # <<>> /\ LastMessage(p) = "apology") =>
            /\ verdict[p] = "continue"
            /\ llm_calls[p] = 1
            /\ llm_retries[p] = 0

\* C15 (the claim as stated): when the provider call of a run failed, the
\* run reaches the save_messages stage with the user turn and then the
\* apology turn of its session as the last two turns of the chat's buffer.
ProviderFailureBuffersTurn ==
    \A p \in Procs :
        (/\ kind[p] = "chat" /\ pc[p] = "save"
         /\ state_messages[p] # <<>> /\ LastMessage(p) = "apology") =>
            LET buf == pending_messages[chat_id[p]]
                n == Len(buf)
            IN  /\ n >= 2
                /\ buf[n - 1].session_id = session_id[p]
                /\ buf[n - 1].role = "user"
                /\ buf[n - 1].tokens = EstimateTokens(words[p])
                /\ buf[n].session_id = session_id[p]
                /\ buf[n].role = "assistant"

\* C16 (the claim as stated): once the run of a turn has produced its reply,
\* the request is answered with that reply, whether or not a store write of
\* the auto-flush or of the forced flush failed.
FlushFailureNotFatal ==
    \A p \in Procs :
        (kind[p] = "chat" /\ pc[p] = "done" /\ verdict[p] # "none") =>
            response[p] = LastMessage(p)

\* C17: with requests served one after the other, a turn appends nothing to
\* any buffer before its budget check has returned, and when the SELECT of
\* get_or_create_chat or the query of check_token_limit raises, the request
\* is over with an error answer, the provider has not been called, and from
\* the failing step on no buffer, no chat row and no message row changes (no
\* chat is created in place of the failed lookup).
ReadFailureAbortsTurn ==
    [][\A p \in Procs :
        /\ pc[p] \in {"select", "create", "check"} =>
                pending_messages' = pending_messages
        /\ (last_read'[p].failed /\ last_read'[p].query \in {"select", "check"}) =>
                /\ pc'[p] = "done"
                /\ response'[p] = "error500"
                /\ llm_calls'[p] = 0
                /\ pending_messages' = pending_messages
                /\ chats' = chats
                /\ messages' = messages]_vars

\* C17 witness: the budget check of a turn on a reused chat has raised, after
\* an earlier turn's lookup succeeded; and the request is answered.
BudgetCheckRaised ==
    \E p \in Procs :
        /\ pc[p] = "done" /\ kind[p] = "chat" /\ ~is_new[p]
        /\ chat_id[p] # NoChat
        /\ last_read[p] = [query |-> "check", failed |-> TRUE]

\* C18 (the claim as stated): a request whose store read raised is answered
\* with the error, whichever read it was (the router's SELECT, the budget
\* check, load_chat_history, load_chat_messages); none is answered with a
\* normal result.
ReadFailurePropagates ==
    \A p \in Procs :
        (pc[p] = "done" /\ last_read[p].failed) => response[p] = "error500"

\* C19 (the claim as stated): the verdict of a run is "end" only if
\* check_token_limit returned False in that run; a run whose check passed
\* has the verdict "continue" whatever the provider replied.
EndOnlyFromBudgetGate ==
    \A p \in Procs :
        (kind[p] = "chat" /\ verdict[p] # "none" /\ within_limit[p]) =>
            verdict[p] = "continue"

\* C20 (the claim as stated): once a save has brought the stored total of a
\* chat to max_tokens_per_chat or over, no UPDATE adds to that total the
\* tokens of a turn of a later run, a run being later when its
\* check_token_limit ran after that save (and so returned False).
BoundedOverrun ==
    [][\A p \in Procs :
        (pc[p] = "update" /\ pc'[p] # "update" /\ chats' # chats) =>
            \A q \in Procs :
                (chat_id[q] = chat_id[p] /\ ~within_limit[q]) =>
                    \A i \in 1..Len(values[p]) :
                        values[p][i].session_id # session_id[q]]_vars

\* the turns add_pending_message can have been handed in SpecLive
LiveTurns ==
    {[session_id |-> n, role |-> "user", tokens |-> EstimateTokens(w)] :
        n \in 1..MaxTurns, w \in TurnWords}

\* C21 (the claim as stated): with the store not failing forever and
\* end_session called as long as calls are left, a turn in the buffer of a
\* chat is eventually in table messages, unless it is still buffered when the
\* caller's last flush has been spent.
BufferedTurnEventuallyStored ==
    \A c \in ApiChats : \A t \in LiveTurns :
        (\E i \in 1..Len(pending_messages[c]) : pending_messages[c][i] = t)
            ~> \/ \E j \in 1..Len(Flatten(messages[c])) : Flatten(messages[c])[j] = t
               \/ /\ \E i \in 1..Len(pending_messages[c]) : pending_messages[c][i] = t
                  /\ requests = MaxSaves

\* C22: when get_or_create_chat(u, t) has returned on a store, with `before`
\* the rows of table chats when it was called: take the rows of u in stored
\* order, keep the first 5, and of these the rows with topic t and a total
\* under max_tokens_per_chat.  If t is given and there is such a row, the
\* result is the first of them with is_new = False and its total, and table
\* chats is unchanged; otherwise the result is a chat id no row had, with
\* is_new = True and total 0, and table chats is `before` with exactly one
\* new row ahead of it: that id, u, t (or no topic), total 0.
ResolveIsReference ==
    \A p \in Procs :
        (pc[p] = "check" /\ kind[p] = "chat") =>
            LET before == IF is_new[p] THEN Tail(chats) ELSE chats
                own == {i \in 1..Len(before) : before[i].user_id = user_id[p]}
                window == {i \in own :
                             Cardinality({j \in own : j < i}) < RECENT_CHATS_LIMIT}
                cand == {i \in window :
                            /\ before[i].topic = topic[p]
                            /\ before[i].total_tokens < MaxTokensPerChat}
            IN  IF topic[p] # NoTopic /\ cand # {}
                THEN LET first == CHOOSE i \in cand : \A j \in cand : i <= j
                     IN  /\ ~is_new[p]
                         /\ chat_id[p] = before[first].chat_id
                         /\ info_total[p] = before[first].total_tokens
                ELSE /\ is_new[p]
                     /\ \A i \in 1..Len(before) : before[i].chat_id # chat_id[p]
                     /\ info_total[p] = 0
                     /\ Head(chats) = [chat_id |-> chat_id[p], user_id |-> user_id[p],
                                       topic |-> topic[p], total_tokens |-> 0]

\* C22 witness: a chat was created although the user has a chat of the topic
\* under the maximum, because that chat is past the five most recent ones.
NewChatPastLookback ==
    \E p \in Procs :
        /\ pc[p] = "check" /\ is_new[p] /\ topic[p] # NoTopic
        /\ \E i \in 1..Len(chats) :
                /\ chats[i].user_id = user_id[p] /\ chats[i].topic = topic[p]
                /\ chats[i].chat_id # chat_id[p]
                /\ chats[i].total_tokens < MaxTokensPerChat

\* C23: a check_token_limit(c) call that returns gives False exactly when
\* chat c has a stored total_tokens at or over max_tokens_per_chat; and the
\* call, returning or raising, leaves table chats, table messages, every
\* buffer and every last save time as they were.
BudgetGateIsComparison ==
    [][\A p \in Procs :
        (pc[p] = "idle" /\ kind'[p] = "check") =>
            LET c == chat_id'[p]
            IN  /\ response'[p] = "returned" =>
                    (within_limit'[p] = FALSE <=>
                        \E i \in 1..Len(chats) :
                            /\ chats[i].chat_id = c
                            /\ chats[i].total_tokens >= MaxTokensPerChat)
                /\ UNCHANGED <<chats, messages, pending_messages, since_save>>]_vars

\* C23 witness: the check has returned False on a chat whose stored total is
\* exactly the maximum and whose buffer holds a turn.
GateClosedExactlyAtLimit ==
    \E p \in Procs :
        /\ pc[p] = "done" /\ kind[p] = "check" /\ response[p] = "returned"
        /\ ~within_limit[p]
        /\ StoredTotal(chat_id[p]) = MaxTokensPerChat
        /\ pending_messages[chat_id[p]] # <<>>

\* C24: should_auto_save as save_pending_messages(force = False) consults
\* it on a non-empty buffer, with calls made one after the other: the call
\* goes to the store exactly when no save of the chat has succeeded in this
\* process or the last one that did is at least the auto-save interval ago;
\* and a chat has no last save time exactly when no save of it has succeeded
\* (its stored total is the one the process found).
ShouldFlushIffDue ==
    \A p \in Procs :
        (/\ pc[p] \in {"insert", "update", "done"} /\ kind[p] = "save"
         /\ ~force[p] /\ entry[p].buf # <<>>) =>
            LET c == chat_id[p]
                found == IF c = EarlierChat.chat_id
                         THEN EarlierChat.total_tokens ELSE 0
                never == entry[p].total = found
                went == pc[p] \in {"insert", "update"} \/ saved[p] # 0
            IN  /\ never <=> entry[p].since = NoTime
                /\ went <=> (never \/ entry[p].since >= AUTO_SAVE_INTERVAL_MINUTES)

\* C24 witness: a call with force = False has returned 0 on a non-empty
\* buffer two minutes after a save of the chat succeeded.
HeldBackInsideInterval ==
    \E p \in Procs :
        /\ pc[p] = "done" /\ kind[p] = "save" /\ ~force[p]
        /\ entry[p].buf # <<>> /\ saved[p] = 0
        /\ entry[p].since = AUTO_SAVE_INTERVAL_MINUTES - 1
        /\ entry[p].total > EarlierChat.total_tokens

\* C25: a save_pending_messages(c, force) call made by a direct caller or
\* by end_session returns at once exactly when the buffer of c is empty, or
\* force is False and a save of c succeeded less than the auto-save interval
\* ago.  It then returns 0, has executed no store statement and leaves every
\* buffer, every last save time and both tables as they were; in every other
\* case it awaits its INSERT INTO messages.
FlushNoOpExactlyWhen ==
    [][\A p \in Procs :
        (pc[p] = "idle" /\ kind'[p] \in {"save", "end"}) =>
            LET c == chat_id'[p]
                noop == \/ pending_messages[c] = <<>>
                        \/ /\ ~force'[p]
                           /\ since_save[c] # NoTime
                           /\ since_save[c] < AUTO_SAVE_INTERVAL_MINUTES
            IN  IF noop
                THEN /\ pc'[p] = "done"
                     /\ saved'[p] = 0
                     /\ batch_writes'[p] = 0
                     /\ UNCHANGED <<pending_messages, since_save, chats, messages>>
                ELSE /\ pc'[p] = "insert"
                     /\ saved'[p] = NotReturned]_vars

\* C25 witness: a forced save, from end_session, has returned 0 on an empty
\* buffer, of a chat that was saved before.
ForcedFlushOfEmptyBuffer ==
    \E p \in Procs :
        /\ pc[p] = "done" /\ kind[p] = "end" /\ force[p]
        /\ entry[p].buf = <<>> /\ saved[p] = 0 /\ batch_writes[p] = 0
        /\ entry[p].since # NoTime

\* C26: under concurrent requests, the buffer of a chat is at every moment
\* the last turns handed to add_pending_message for it, in the order they
\* were handed over (or empty), made of pairs: a run's user turn with the
\* same run's assistant turn right behind it; and the rows of every INSERT
\* INTO messages, awaited or executed, are a run of consecutive turns in
\* that same order.
BufferIsFifo ==
    \A c \in ChatIds :
        LET all == appended[c]
            buf == pending_messages[c]
            InOrder(s) == \E k \in 0..(Len(all) - Len(s)) :
                              SubSeq(all, k + 1, k + Len(s)) = s
        IN  /\ Len(buf) <= Len(all)
            /\ SubSeq(all, Len(all) - Len(buf) + 1, Len(all)) = buf
            /\ \A i \in 1..Len(buf) :
                    buf[i].role = "user" =>
                        /\ i < Len(buf)
                        /\ buf[i + 1].role = "assistant"
                        /\ buf[i + 1].session_id = buf[i].session_id
            /\ \A i \in 1..Len(buf) :
                    buf[i].role = "assistant" =>
                        /\ i > 1
                        /\ buf[i - 1].role = "user"
                        /\ buf[i - 1].session_id = buf[i].session_id
            /\ \A b \in 1..Len(messages[c]) : InOrder(messages[c][b])
            /\ \A p \in Procs :
                    (pc[p] \in {"insert", "update"} /\ chat_id[p] = c) =>
                        InOrder(values[p])

\* C26 witness: one INSERT has written the turn pairs of two runs, the pair
\* appended first ahead of the other.
BatchOfTwoRuns ==
    \E c \in ChatIds : \E b \in 1..Len(messages[c]) :
        LET batch == messages[c][b]
        IN  /\ Len(batch) = 4
            /\ batch[1].session_id # batch[3].session_id
            /\ batch[1].role = "user" /\ batch[3].role = "user"

\* C27: every step of an operation of the manager (the append of a turn, a
\* save_pending_messages or end_session call returning at once, its INSERT
\* or its UPDATE ending well or raising) is on one chat, and leaves the
\* buffer, the last save time, the stored total and the message rows of
\* every other chat as they were; and every row of table messages under a
\* chat is a turn that was appended under that chat.
BuffersNotShared ==
    [][LET Own(b) == \/ \E p \in Procs : pc'[p] # pc[p] /\ chat_id'[p] = b
                     \/ appended'[b] # appended[b]
           passing == pc' = pc /\ appended' = appended
       IN  /\ Cardinality({b \in ChatIds : Own(b)}) <= 1
           /\ \A b \in ChatIds :
                (~Own(b) /\ ~passing) =>
                    /\ pending_messages'[b] = pending_messages[b]
                    /\ since_save'[b] = since_save[b]
                    /\ messages'[b] = messages[b]
                    /\ TotalRows(chats', b) = TotalRows(chats, b)
           /\ \A c \in ChatIds :
                \A i \in 1..Len(Flatten(messages'[c])) :
                    \E j \in 1..Len(appended'[c]) :
                        appended'[c][j] = Flatten(messages'[c])[i]]_vars

\* C27 witness: a save of one chat has returned and emptied its buffer while
\* another chat has turns in its buffer.
FlushBesideBufferedChat ==
    \E p \in Procs : \E b \in ChatIds :
        /\ pc[p] = "done" /\ saved[p] > 0 /\ b # chat_id[p]
        /\ pending_messages[b] # <<>>
        /\ pending_messages[chat_id[p]] = <<>>

\* C28: with requests served one after the other, when chat() has answered
\* with a reply (not with an error), the buffer of the request's chat is
\* empty, whatever the save_messages stage did before: written, held back
\* by the timer, or failed.
ReplyLeavesBufferEmpty ==
    \A p \in Procs :
        (pc[p] = "done" /\ kind[p] = "chat" /\ response[p] # "error500") =>
            pending_messages[chat_id[p]] = <<>>

\* C28 witness: chat() has answered with the LLM's reply after its forced
\* save wrote the turn pair, less than the auto-save interval after the last
\* save of the chat, so that the save_messages stage had been held back.
ForcedFlushAfterHeldBackAutoFlush ==
    \E p \in Procs :
        /\ pc[p] = "done" /\ kind[p] = "chat" /\ response[p] = "ai"
        /\ force[p] /\ saved[p] = 2 /\ batch_writes[p] = 1
        /\ entry[p].since # NoTime
        /\ entry[p].since < AUTO_SAVE_INTERVAL_MINUTES

\* C29: with requests served one after the other, check_token_limit never
\* returns False in a run: the chat handed to the graph is new, or was
\* selected with a total under max_tokens_per_chat that is still the stored
\* total when the check reads it.
BudgetCheckPassesAlone ==
    \A p \in Procs :
        /\ within_limit[p]
        /\ (kind[p] = "chat" /\ pc[p] = "check") =>
                /\ StoredTotal(chat_id[p]) = info_total[p]
                /\ info_total[p] < MaxTokensPerChat
                /\ is_new[p] => info_total[p] = 0

\* C29 witness: the check has passed on a reused chat that has turns stored.
CheckPassedJustUnderLimit ==
    \E p \in Procs :
        /\ kind[p] = "chat" /\ pc[p] = "llm" /\ ~is_new[p]
        /\ last_read[p] = [query |-> "check", failed |-> FALSE]
        /\ StoredTotal(chat_id[p]) > 0

\* C30 (the claim as stated): when the UPDATE of a save_pending_messages
\* call has succeeded, the count the call returns is the number of rows its
\* INSERT INTO messages wrote, and the stored total has grown by the sum of
\* the token counts of those rows, whatever other requests did meanwhile.
FlushCountIsRowsWritten ==
    [][\A p \in Procs :
        (pc[p] = "update" /\ pc'[p] # "update" /\ saved'[p] >= 0) =>
            LET c == chat_id[p]
            IN  /\ saved'[p] = Len(values[p])
                /\ TotalRows(chats', c) =
                        <<StoredTotal(c) + SumTokens(values[p])>>]_vars

\* C31 (the claim as stated): whenever no save_pending_messages call on chat c
\* is between its entry to the store and its end, the stored total_tokens of
\* c is the sum of the token counts of the rows of table messages under c,
\* whichever store calls have raised and been tried again before.
StoredTotalIsRowSum ==
    \A c \in ChatIds :
        (\A p \in Procs : ~(pc[p] \in {"insert", "update"} /\ chat_id[p] = c)) =>
            StoredTotal(c) = SumTokens(Flatten(messages[c]))

====
